---- MODULE Spec2Model ----
(***************************************************************************)
(* Model of the streaming record extractor UniProtEntries (package         *)
(* uniprot): os.Open + gzip.NewReader + xml.NewDecoder at construction,    *)
(* and the returned iter.Seq2 function with its deferred closes, its       *)
(* decoder.Token() loop, DecodeElement on <entry> and the yield callback.  *)
(*                                                                         *)
(* The archive is the decompressed document seen as the token sequence     *)
(* that encoding/xml would deliver.  A "malformed" token stands for the    *)
(* place where the tokenizer reports a syntax error (including an          *)
(* unexpected end of input with open elements); it is always last because  *)
(* the decoder's error is sticky.  An <entry> start token with bad = TRUE  *)
(* is a record whose subtree holds a value that cannot be converted to the *)
(* declared Go type (e.g. version="x" for an int field).                   *)
(***************************************************************************)
EXTENDS Integers, Sequences, FiniteSets, TLC

\* ---------------------------------------------------------------- bounds
MaxLen == 6
MaxIter == 2

\* ---------------------------------------------------------------- tokens
Su == [k |-> "start", tag |-> "uniprot", bad |-> FALSE]
Se == [k |-> "start", tag |-> "entry", bad |-> FALSE]
Seb == [k |-> "start", tag |-> "entry", bad |-> TRUE]
So == [k |-> "start", tag |-> "other", bad |-> FALSE]
Ee == [k |-> "end", tag |-> "", bad |-> FALSE]
Xm == [k |-> "malformed", tag |-> "", bad |-> FALSE]

Tokens == {Su, Se, Seb, So, Ee, Xm}

\* Nesting depth after the first n tokens of a (or -1 once an end token has
\* no open element, which the tokenizer rejects).
RECURSIVE DepthAfter(_, _)
DepthAfter(a, n) ==
    IF n = 0 THEN 0
    ELSE LET d == DepthAfter(a, n - 1)
         IN  IF d < 0 THEN -1
             ELSE IF a[n].k = "start" THEN d + 1
             ELSE IF a[n].k = "end" THEN d - 1
             ELSE d

\* Token sequences the tokenizer can deliver: balanced, and either complete
\* or cut short by one final syntax error.
ValidArchive(a) ==
    /\ \A i \in 1..Len(a) : DepthAfter(a, i) >= 0
    /\ \A i \in 1..Len(a) : a[i].k = "malformed" => i = Len(a)
    /\ (Len(a) = 0 \/ a[Len(a)].k # "malformed") => DepthAfter(a, Len(a)) = 0

Archives ==
    {a \in UNION {[1..n -> Tokens] : n \in 0..MaxLen} : ValidArchive(a)}

\* Index of the end token matching the start token at s, 0 if the element is
\* never closed (the stream breaks first).
RECURSIVE MatchFrom(_, _, _)
MatchFrom(a, i, d) ==
    IF i > Len(a) THEN 0
    ELSE IF a[i].k = "start" THEN MatchFrom(a, i + 1, d + 1)
    ELSE IF a[i].k = "end" THEN (IF d = 1 THEN i ELSE MatchFrom(a, i + 1, d - 1))
    ELSE 0

\* Variant without depth tracking: the first end token after s.
MatchEnd_FirstEnd(a, s) ==
    IF \E i \in (s + 1)..Len(a) : a[i].k = "end"
    THEN CHOOSE i \in (s + 1)..Len(a) :
             a[i].k = "end" /\ \A j \in (s + 1)..(i - 1) : a[j].k # "end"
    ELSE 0

MatchEnd(a, s) == MatchFrom(a, s + 1, 1)

\* Index of the start token of the element enclosing token i, 0 at top level.
RECURSIVE ParentFrom(_, _, _)
ParentFrom(a, j, d) ==
    IF j = 0 THEN 0
    ELSE IF a[j].k = "end" THEN ParentFrom(a, j - 1, d + 1)
    ELSE IF a[j].k = "start" THEN (IF d = 0 THEN j ELSE ParentFrom(a, j - 1, d - 1))
    ELSE ParentFrom(a, j - 1, d)

Parent(a, i) == ParentFrom(a, i - 1, 0)


\* ----------------------------------------------------------------- state
VARIABLES
    archive,      \* token sequence of the decompressed document behind filePath
    pc,           \* "init", "ready", "scanning", "yielding", "exited"
    pos,          \* decoder: index of the next token to deliver
    bufEnd,       \* decoder: tokens up to this index are already buffered
                  \* (Len(archive)+1 = end of input already seen)
    decErr,       \* decoder: sticky error, "none", "eof", "syntax" or "io"
    yieldedRoot,  \* closure variable yieldedRoot
    fileOpen,     \* the *os.File is open
    gzOpen,       \* the *gzip.Reader has not been closed
    closeLog,     \* Close calls in execution order, "gz" or "file"
    iter,         \* number of times the returned function has been called
    steps,        \* pairs offered to yield, in order
    lastAnswer,   \* what yield returned last in this call: "continue", "stop"
                  \* ("fatal" when the callback ended the process instead)
    endKind,      \* how this call ended: "none", "exhausted", "stopped", "fatal"
    exitCause,    \* which log.Fatal ended the process: "none", "open", "gzip", "token",
                  \* or "consumer" (the loop body of the caller)
    lateAccess,   \* uses of the file/gzip reader after their Close
    tokenCalls,   \* decoder.Token() calls made by the current call
    teardowns,    \* executions of the deferred closes in the current call
    fatals        \* log.Fatal / log.Fatalf calls executed

vars == <<archive, pc, pos, bufEnd, decErr, yieldedRoot, fileOpen, gzOpen,
          closeLog, iter, steps, lastAnswer, endKind, exitCause, lateAccess,
          tokenCalls, teardowns, fatals>>

decoderVars == <<pos, bufEnd, decErr>>
resourceVars == <<fileOpen, gzOpen, closeLog, teardowns>>

OpenOutcomes == {"ok", "openfail", "gzipfail"}

Init ==
    /\ archive \in Archives
    /\ pc = "init"
    /\ pos = 1
    /\ bufEnd = 0
    /\ decErr = "none"
    /\ yieldedRoot = FALSE
    /\ fileOpen = FALSE
    /\ gzOpen = FALSE
    /\ closeLog = <<>>
    /\ iter = 0
    /\ steps = <<>>
    /\ lastAnswer = "none"
    /\ endKind = "none"
    /\ exitCause = "none"
    /\ lateAccess = {}
    /\ tokenCalls = 0
    /\ teardowns = 0
    /\ fatals = 0

\* ------------------------------------------------------------ construction
\* UniProtEntries(filePath): os.Open, gzip.NewReader, xml.NewDecoder.
\* Either failure ends the process through log.Fatal.

\* Variant that forgets the file when gzip.NewReader fails.
CloseOnGzipFail_Leak(outcome) == <<>>

\* if err != nil { file.Close(); log.Fatal("gzip error") }: the closes made
\* by the constructor itself.
CloseOnGzipFail(outcome) == IF outcome = "gzipfail" THEN <<"file">> ELSE <<>>

Open(outcome) ==
    /\ pc = "init"
    /\ pc' = IF outcome = "ok" THEN "ready" ELSE "exited"
    /\ fileOpen' = (outcome # "openfail" /\ CloseOnGzipFail(outcome) = <<>>)
    /\ gzOpen' = (outcome = "ok")
    /\ closeLog' = closeLog \o CloseOnGzipFail(outcome)
    /\ exitCause' = CASE outcome = "openfail" -> "open"
                      [] outcome = "gzipfail" -> "gzip"
                      [] OTHER -> "none"
    /\ fatals' = IF outcome = "ok" THEN fatals ELSE fatals + 1
    /\ UNCHANGED <<archive, decoderVars, yieldedRoot, iter, steps, lastAnswer,
                   endKind, lateAccess, tokenCalls, teardowns>>

\* The consumer ranges over the returned function (once more).
Range ==
    /\ pc = "ready"
    /\ iter < MaxIter
    /\ pc' = "scanning"
    /\ iter' = iter + 1
    /\ lastAnswer' = "none"
    /\ endKind' = "none"
    /\ tokenCalls' = 0
    /\ teardowns' = 0
    /\ UNCHANGED <<archive, fatals, decoderVars, yieldedRoot, fileOpen, gzOpen,
                   closeLog, steps, exitCause, lateAccess>>

\* ---------------------------------------------------------------- teardown
\* Variant that closes the file only (no deferred gzipReader.Close()).
Teardown_FileOnly ==
    /\ closeLog' = closeLog \o <<"file">>
    /\ gzOpen' = gzOpen
    /\ fileOpen' = FALSE
    /\ teardowns' = teardowns + 1
    /\ lateAccess' = lateAccess \cup (IF fileOpen THEN {} ELSE {"close"})

\* defer file.Close(); defer gzipReader.Close(): run in reverse order when
\* the function returns.
Teardown ==
    /\ closeLog' = closeLog \o <<"gz", "file">>
    /\ gzOpen' = FALSE
    /\ fileOpen' = FALSE
    /\ teardowns' = teardowns + 1
    /\ lateAccess' = lateAccess \cup
                       (IF gzOpen /\ fileOpen THEN {} ELSE {"close"})

\* ------------------------------------------------------------ transport
\* What a decoder call that must consume tokens up to index need can get
\* from the transport.  Buffered tokens need no read.  Otherwise the decoder
\* reads the gzip reader, which reads the file; how much arrives per read
\* depends on buffer boundaries.  After the closes, data still held in the
\* gzip reader's own buffers can be delivered, but the end of input cannot
\* be reached any more: the read of the closed file fails.
Reads(need) ==
    IF need <= bufEnd
    THEN {[buf |-> bufEnd, late |-> FALSE, ok |-> TRUE]}
    ELSE IF gzOpen /\ fileOpen
    THEN {[buf |-> b, late |-> FALSE, ok |-> TRUE] :
              b \in need..(Len(archive) + 1)}
    ELSE {[buf |-> b, late |-> TRUE, ok |-> TRUE] : b \in need..Len(archive)}
         \cup {[buf |-> bufEnd, late |-> TRUE, ok |-> FALSE]}

Late(r) == IF r.late THEN {"read"} ELSE {}

\* ------------------------------------------------------------ the loop body
\* if err != nil { if err == io.EOF { return }; log.Fatalf(...) }
OnTokenError(err) == IF err = "eof" THEN "return" ELSE "fatal"

\* start.Name.Local == "uniprot"
IsRootStart(tok) == tok.k = "start" /\ tok.tag = "uniprot"

\* Variants of the record test: one passes over records that will not
\* decode, one does not wait for the root container.
IsRecordStart_SkipBad(tok, root) ==
    tok.k = "start" /\ tok.tag = "entry" /\ root /\ ~tok.bad

IsRecordStart_NoRootCheck(tok, root) == tok.k = "start" /\ tok.tag = "entry"

\* start.Name.Local == "entry" && yieldedRoot (reached only when the tag is
\* not "uniprot")
IsRecordStart(tok, root) == tok.k = "start" /\ tok.tag = "entry" /\ root

\* Variants of the test on yield's result used to check that the properties
\* below depend on it: one ends the iteration after any step, one ends it
\* after an error step whatever the consumer answers, one never ends it.
YieldReturn_AlwaysReturn(cont, err) == "return"

YieldReturn_StopOnError(cont, err) ==
    IF cont /\ err = "none" THEN "scanning" ELSE "return"

YieldReturn_IgnoreAnswer(cont, err) == "scanning"

\* err := decoder.DecodeElement(...); if !yield(entry, err) { return }
\* Only yield's result decides; err is passed on, never tested.
YieldReturn(cont, err) == IF cont THEN "scanning" ELSE "return"

\* decoder.DecodeElement(&entry, &start) for the start token at index s:
\* where the decoder stands afterwards (next) and the error it returns.
\* A good record is consumed through its matching end token.  A value that
\* cannot be converted makes Unmarshal return at once, wherever in the
\* subtree it is: the rest of the subtree stays unread.  A syntax error
\* inside the subtree is returned as is and stays in the decoder.
DecodeOutcomes(a, s) ==
    LET m == MatchEnd(a, s)
    IN  IF a[s].bad
        THEN {[next |-> q, err |-> "shape"] :
                  q \in (s + 1)..(IF m # 0 THEN m + 1 ELSE Len(a))}
        ELSE IF m # 0
        THEN {[next |-> m + 1, err |-> "none"]}
        ELSE {[next |-> Len(a), err |-> "syntax"]}

\* Last token index a decode outcome had to read.
NeedOf(s, o) == IF o.err = "syntax" THEN o.next ELSE o.next - 1

\* Variant of the end-of-stream branch that hands io.EOF to the consumer as
\* one more step before returning.
TokenEOF_ExtraStep ==
    /\ pc = "scanning"
    /\ \/ decErr = "eof" /\ UNCHANGED bufEnd
       \/ /\ decErr = "none"
          /\ pos = Len(archive) + 1
          /\ \E r \in Reads(pos) : r.ok /\ bufEnd' = r.buf
    /\ decErr' = "eof"
    /\ steps' = Append(steps, [idx |-> pos, err |-> "eof", iter |-> iter])
    /\ Teardown
    /\ pc' = "ready"
    /\ endKind' = "exhausted"
    /\ tokenCalls' = tokenCalls + 1
    /\ UNCHANGED <<archive, fatals, pos, yieldedRoot, iter, lastAnswer, exitCause>>

\* decoder.Token() returns io.EOF; the function returns, the defers run.
TokenEOF ==
    /\ pc = "scanning"
    /\ \/ decErr = "eof" /\ UNCHANGED bufEnd
       \/ /\ decErr = "none"
          /\ pos = Len(archive) + 1
          /\ \E r \in Reads(pos) : r.ok /\ bufEnd' = r.buf
    /\ OnTokenError("eof") = "return"
    /\ decErr' = "eof"
    /\ Teardown
    /\ pc' = "ready"
    /\ endKind' = "exhausted"
    /\ tokenCalls' = tokenCalls + 1
    /\ UNCHANGED <<archive, fatals, pos, yieldedRoot, iter, steps, lastAnswer, exitCause>>

\* decoder.Token() returns another error (syntax error, or the read of the
\* closed file): log.Fatalf ends the process; no deferred call runs.
TokenFail ==
    /\ pc = "scanning"
    /\ \/ /\ decErr \in {"syntax", "io"}
          /\ UNCHANGED <<decErr, bufEnd, lateAccess>>
       \/ /\ decErr = "none"
          /\ pos <= Len(archive)
          /\ archive[pos].k = "malformed"
          /\ \E r \in Reads(pos) :
                /\ r.ok
                /\ bufEnd' = r.buf
                /\ lateAccess' = lateAccess \cup Late(r)
          /\ decErr' = "syntax"
       \/ /\ decErr = "none"
          /\ \E r \in Reads(pos) :
                /\ ~r.ok
                /\ bufEnd' = r.buf
                /\ lateAccess' = lateAccess \cup Late(r)
          /\ decErr' = "io"
    /\ OnTokenError(decErr') = "fatal"
    /\ pc' = "exited"
    /\ exitCause' = "token"
    /\ endKind' = "fatal"
    /\ fatals' = fatals + 1
    /\ tokenCalls' = tokenCalls + 1
    /\ UNCHANGED <<archive, pos, yieldedRoot, resourceVars, iter, steps, lastAnswer>>

\* The token is the start of <uniprot>: yieldedRoot = true; continue.
TokenRoot ==
    /\ pc = "scanning"
    /\ decErr = "none"
    /\ pos <= Len(archive)
    /\ IsRootStart(archive[pos])
    /\ \E r \in Reads(pos) :
          /\ r.ok
          /\ bufEnd' = r.buf
          /\ lateAccess' = lateAccess \cup Late(r)
    /\ yieldedRoot' = TRUE
    /\ pos' = pos + 1
    /\ tokenCalls' = tokenCalls + 1
    /\ UNCHANGED <<archive, fatals, pc, decErr, resourceVars, iter, steps, lastAnswer,
                   endKind, exitCause>>

\* Any other token that is not a record start to decode: nothing happens,
\* the loop asks for the next token.
TokenSkip ==
    /\ pc = "scanning"
    /\ decErr = "none"
    /\ pos <= Len(archive)
    /\ archive[pos].k # "malformed"
    /\ ~IsRootStart(archive[pos])
    /\ ~IsRecordStart(archive[pos], yieldedRoot)
    /\ \E r \in Reads(pos) :
          /\ r.ok
          /\ bufEnd' = r.buf
          /\ lateAccess' = lateAccess \cup Late(r)
    /\ pos' = pos + 1
    /\ tokenCalls' = tokenCalls + 1
    /\ UNCHANGED <<archive, fatals, pc, decErr, yieldedRoot, resourceVars, iter, steps,
                   lastAnswer, endKind, exitCause>>

\* Variant in which the record is handed over without waiting for the
\* consumer (as a producer filling a queue would): the loop goes on.
ControlAfterOffer_Async == "scanning"

\* yield(entry, err) is a plain call: the loop is suspended inside it until
\* the consumer's callback returns.
ControlAfterOffer == "yielding"

\* The token is the start of <entry> and the root was seen: DecodeElement,
\* then yield(entry, err); the consumer now holds control.
TokenEntry ==
    /\ pc = "scanning"
    /\ decErr = "none"
    /\ pos <= Len(archive)
    /\ ~IsRootStart(archive[pos])
    /\ IsRecordStart(archive[pos], yieldedRoot)
    /\ \E o \in DecodeOutcomes(archive, pos) :
       \E r \in Reads(NeedOf(pos, o)) :
          /\ bufEnd' = r.buf
          /\ lateAccess' = lateAccess \cup Late(r)
          /\ \/ /\ r.ok
                /\ pos' = o.next
                /\ decErr' = IF o.err = "syntax" THEN "syntax" ELSE decErr
                /\ steps' = Append(steps, [idx |-> pos, err |-> o.err, iter |-> iter])
             \/ /\ ~r.ok
                /\ NeedOf(pos, o) > pos
                /\ pos' = pos
                /\ decErr' = "io"
                /\ steps' = Append(steps, [idx |-> pos, err |-> "io", iter |-> iter])
    /\ pc' = ControlAfterOffer
    /\ tokenCalls' = tokenCalls + 1
    /\ UNCHANGED <<archive, fatals, yieldedRoot, resourceVars, iter, lastAnswer,
                   endKind, exitCause>>

\* yield returns: true resumes the loop, false returns (the defers run).
YieldReturns(cont) ==
    /\ pc = "yielding"
    /\ lastAnswer' = IF cont THEN "continue" ELSE "stop"
    /\ IF YieldReturn(cont, steps[Len(steps)].err) = "scanning"
       THEN /\ pc' = "scanning"
            /\ UNCHANGED <<resourceVars, lateAccess, endKind>>
       ELSE /\ Teardown
            /\ pc' = "ready"
            /\ endKind' = "stopped"
    /\ UNCHANGED <<archive, fatals, decoderVars, yieldedRoot, iter, steps, exitCause,
                   tokenCalls>>

\* The loop body of cmd/uniprot main: if err != nil { log.Fatal(...) }.
\* The process ends inside the consumer's callback; yield never returns and
\* no deferred call runs.
ConsumerFatal ==
    /\ pc = "yielding"
    /\ steps[Len(steps)].err # "none"
    /\ pc' = "exited"
    /\ exitCause' = "consumer"
    /\ lastAnswer' = "fatal"
    /\ fatals' = fatals + 1
    /\ UNCHANGED <<archive, decoderVars, yieldedRoot, resourceVars, iter, steps,
                   endKind, lateAccess, tokenCalls>>

Next ==
    \/ \E outcome \in OpenOutcomes : Open(outcome)
    \/ Range
    \/ TokenEOF
    \/ TokenFail
    \/ TokenRoot
    \/ TokenSkip
    \/ TokenEntry
    \/ \E cont \in BOOLEAN : YieldReturns(cont)
    \/ ConsumerFatal

Spec == Init /\ [][Next]_vars

TypeOK ==
    /\ pc \in {"init", "ready", "scanning", "yielding", "exited"}
    /\ pos \in 1..(Len(archive) + 1)
    /\ bufEnd \in 0..(Len(archive) + 1)
    /\ decErr \in {"none", "eof", "syntax", "io"}
    /\ iter \in 0..MaxIter
    /\ teardowns \in 0..1

\* ------------------------------------------------------- claim vocabulary
Last(q) == q[Len(q)]

\* The document is one <uniprot> element, tokenized without error, and no
\* record in it has an unconvertible value.
WellFormedDoc(a) ==
    /\ Len(a) >= 2
    /\ a[1] = Su
    /\ MatchEnd(a, 1) = Len(a)
    /\ \A i \in 1..Len(a) : ~a[i].bad

\* Token i starts a record element that is a direct child of the root
\* container (a top-level <uniprot>).
IsDirectRecord(a, i) ==
    /\ i \in 1..Len(a)
    /\ a[i].k = "start"
    /\ a[i].tag = "entry"
    /\ Parent(a, i) # 0
    /\ a[Parent(a, i)].tag = "uniprot"
    /\ Parent(a, Parent(a, i)) = 0

\* The direct-child record elements among the first n tokens, in source order.
RECURSIVE DirectRecords(_, _)
DirectRecords(a, n) ==
    IF n = 0 THEN <<>>
    ELSE IF IsDirectRecord(a, n) THEN Append(DirectRecords(a, n - 1), n)
    ELSE DirectRecords(a, n - 1)

\* The tokenizer reports no syntax error anywhere in the document.
NoSyntaxError(a) == \A i \in 1..Len(a) : a[i].k # "malformed"

\* The current call of the iteration function is over.
CallOver == iter >= 1 /\ endKind # "none"

\* ------------------------------------------------------------------ claims

\* C1: however a call of the iteration function ends (exhaustion, consumer
\* stop, token-layer or decode failure), the teardown (close decompressor,
\* close file) has executed exactly once in that call.
C1_TeardownExactlyOnce == CallOver => teardowns = 1

\* C2: once the token layer has reported a syntax error and the iteration is
\* over, the consumer has been offered a step carrying that error, it is the
\* last step, and it is the only one carrying it.
C2_MalformedIsLastStep ==
    (decErr = "syntax" /\ pc \in {"ready", "exited"}) =>
        /\ Len(steps) >= 1
        /\ Last(steps).err = "syntax"
        /\ \A i \in 1..(Len(steps) - 1) : steps[i].err # "syntax"

\* C3: for a well-formed archive, a first iteration that runs to exhaustion
\* has offered exactly the direct-child record elements of the root, in
\* source order, each without error.
C3_ExactlyTheRecordsInOrder ==
    (WellFormedDoc(archive) /\ iter = 1 /\ endKind = "exhausted") =>
        steps = [i \in 1..Len(DirectRecords(archive, Len(archive))) |->
                    [idx |-> DirectRecords(archive, Len(archive))[i],
                     err |-> "none", iter |-> 1]]

\* C4: in a well-formed archive every step offered carries a record element
\* that is a direct child of the root; nothing nested inside a non-record
\* sibling ever produces a step.
C4_OnlyDirectChildrenYielded ==
    (WellFormedDoc(archive) /\ \A i \in 2..Len(archive) : archive[i] # Su) =>
        \A i \in 1..Len(steps) : IsDirectRecord(archive, steps[i].idx)

\* C5: a startup failure (open or decompression initialization) never
\* terminates the host process.
C5_StartupNeverExits == exitCause \notin {"open", "gzip"}

C7_RecordsAfterDecodeErrorOffered ==
    (iter = 1 /\ pc = "ready" /\ lastAnswer # "stop") =>
        \A i \in 1..Len(steps) :
            steps[i].err = "shape" =>
                \A j \in (steps[i].idx + 1)..Len(archive) :
                    IsDirectRecord(archive, j) =>
                        \E n \in (i + 1)..Len(steps) : steps[n].idx = j

\* C7 witness: the first call ran to exhaustion, a record was offered with a
\* decode error, and a direct-child record after it was offered too.
C7_Witness ==
    /\ iter = 1
    /\ endKind = "exhausted"
    /\ \E i \in 1..Len(steps) : \E n \in (i + 1)..Len(steps) :
          /\ steps[i].err = "shape"
          /\ IsDirectRecord(archive, steps[i].idx)
          /\ IsDirectRecord(archive, steps[n].idx)
          /\ steps[n].err = "none"

\* C8: once yield has returned false, the call makes no further
\* decoder.Token() request, consumes and buffers no further token, and
\* offers no further step: it returns.
C8_NothingAfterStop ==
    [][/\ (pc = "yielding" /\ lastAnswer' = "stop") => pc' = "ready"
       /\ ((lastAnswer = "stop" \/ lastAnswer' = "stop") /\ iter' = iter) =>
             /\ tokenCalls' = tokenCalls
             /\ steps' = steps
             /\ pos' = pos
             /\ bufEnd' = bufEnd]_vars

\* C8 witness: the consumer stopped while tokens were still unread.
C8_Witness ==
    /\ pc = "ready"
    /\ lastAnswer = "stop"
    /\ endKind = "stopped"
    /\ pos <= Len(archive)
    /\ bufEnd < Len(archive)

\* C9: the file handle and the decompression state are never read after
\* teardown has run, whatever the consumer does with the sequence value
\* (checked here on well-formed archives).
C9_NoReadAfterTeardown == WellFormedDoc(archive) => "read" \notin lateAccess

\* C10: the sequence is not restartable: every decoded record belongs to the
\* first call of the iteration function; calling it again offers no record
\* (checked here on well-formed archives).
C10_NoStepOnReiteration ==
    WellFormedDoc(archive) =>
        \A i \in 1..Len(steps) : steps[i].err = "none" => steps[i].iter = 1

\* C11: a decode failure is never a silent omission: whenever the scanner,
\* with the root already seen, is delivered a record-tag start event, that
\* very call offers exactly one step for it (the record alone, or the record
\* with the decode error) and hands control to the consumer.
C11_EveryRecordStartOffered ==
    [][(/\ pc = "scanning"
        /\ decErr = "none"
        /\ yieldedRoot
        /\ pos <= Len(archive)
        /\ archive[pos].k = "start"
        /\ archive[pos].tag = "entry"
        /\ tokenCalls' = tokenCalls + 1
        /\ pc' # "exited") =>
          /\ pc' = "yielding"
          /\ Len(steps') = Len(steps) + 1
          /\ Last(steps').idx = pos
          /\ Last(steps').iter = iter
          /\ Last(steps').err \in {"none", "shape", "syntax", "io"}
          /\ archive[pos].bad => Last(steps').err # "none"]_vars

\* C11 witness: a record was offered decoded and a later one was offered
\* together with its decode error.
C11_Witness ==
    /\ pc = "yielding"
    /\ Len(steps) >= 2
    /\ steps[Len(steps) - 1].err = "none"
    /\ Last(steps).err = "shape"
    /\ Last(steps).iter = 1

\* C12: on a startup failure (open, or decompression initialization) the
\* process has stopped before the sequence existed: no call of the iteration
\* function, no step, the cause reported by exactly one log.Fatal; and the
\* file is closed exactly once when it had been opened (gzip failure), never
\* when it had not (open failure).
C12_StartupFailureIsClean ==
    exitCause \in {"open", "gzip"} =>
        /\ pc = "exited"
        /\ iter = 0
        /\ steps = <<>>
        /\ fatals = 1
        /\ ~fileOpen
        /\ ~gzOpen
        /\ closeLog = IF exitCause = "gzip" THEN <<"file">> ELSE <<>>

\* C12 witness: decompression initialization failed after the file was
\* opened, and the file has been closed.
C12_Witness == exitCause = "gzip" /\ closeLog = <<"file">> /\ ~fileOpen

\* C13: in every execution of the teardown path the decompressor is closed
\* first, while the file handle is still open, and the file handle is
\* closed after it.
C13_GzipClosedWhileFileOpen ==
    [][(pc # "init" /\ Len(closeLog') > Len(closeLog)) =>
          /\ closeLog' = closeLog \o <<"gz", "file">>
          /\ fileOpen
          /\ ~fileOpen']_vars

\* C14: while the root container's start has not been seen, every token
\* delivered other than the root start is discarded: a record-tag start is
\* not decoded, no step is offered, the state stays Searching; so no step
\* ever exists before the root was seen.
C14_SearchingDiscards ==
    [][/\ (/\ pc = "scanning"
           /\ ~yieldedRoot
           /\ tokenCalls' = tokenCalls + 1
           /\ ~(pos <= Len(archive) /\ archive[pos].k = "start"
                  /\ archive[pos].tag = "uniprot")) =>
             /\ steps' = steps
             /\ pc' # "yielding"
             /\ ~yieldedRoot'
             /\ pos' \in {pos, pos + 1}
       /\ steps' # <<>> => yieldedRoot']_vars

\* C14 witness: the document starts with a record element placed before the
\* root; the first call ran to exhaustion and the only step offered is a
\* record found after the root start.
C14_Witness ==
    /\ iter = 1
    /\ endKind = "exhausted"
    /\ Len(archive) >= 1
    /\ archive[1] = Se
    /\ Len(steps) = 1
    /\ steps[1].idx > 2
    /\ \E j \in 2..(steps[1].idx - 1) : archive[j] = Su

\* The end token that closes the element started at s: the first token
\* after s at which the nesting depth is back to what it was before s
\* (0 if there is none).
ClosingOf(a, s) ==
    LET C == {m \in (s + 1)..Len(a) :
                 a[m].k = "end" /\ DepthAfter(a, m) = DepthAfter(a, s - 1)}
    IN  IF C = {} THEN 0 ELSE CHOOSE m \in C : \A n \in C : m <= n

\* No step was offered for an element lying inside the subtree of a record
\* that was decoded without error.
NoStepInsideDecoded(q) ==
    \A i \in 1..Len(q) : \A n \in 1..Len(q) :
        (q[i].err = "none" /\ n # i) =>
            ~(q[i].idx < q[n].idx /\ q[n].idx <= ClosingOf(archive, q[i].idx))

\* C15: a successful record decode consumes the record's start token through
\* its matching end token, nesting tracked: scanning resumes at the token
\* after the matching end, and an element with the record tag nested in the
\* record neither ends the decode early nor gets a step of its own.
C15_DecodeConsumesWholeSubtree ==
    [][/\ (Len(steps') = Len(steps) + 1 /\ Last(steps').err = "none") =>
             /\ Last(steps').idx = pos
             /\ ClosingOf(archive, pos) # 0
             /\ pos' = ClosingOf(archive, pos) + 1
       /\ NoStepInsideDecoded(steps')]_vars

\* C15 witness: a record holding a nested element with the record tag was
\* decoded without error, the decoder stands right after its matching end,
\* and the iteration then ran to exhaustion.
C15_Witness ==
    /\ endKind = "exhausted"
    /\ \E i \in 1..Len(steps) :
          /\ steps[i].err = "none"
          /\ \E j \in (steps[i].idx + 1)..(ClosingOf(archive, steps[i].idx) - 1) :
                archive[j].k = "start" /\ archive[j].tag = "entry"

\* C16: when decoder.Token() reports end-of-stream, whatever the state
\* (root seen or not), the call ends there: it returns normally, offers no
\* further step, reports no error and exits nothing; so a document without
\* a root container gives no step at all.
C16_EndOfStreamEndsQuietly ==
    [][/\ (pc = "scanning" /\ tokenCalls' = tokenCalls + 1 /\ decErr' = "eof") =>
             /\ pc' = "ready"
             /\ endKind' = "exhausted"
             /\ steps' = steps
             /\ exitCause' = "none"
             /\ fatals' = fatals
             /\ teardowns' = 1
       /\ (\A i \in 1..Len(archive) : archive[i] # Su) => steps' = <<>>]_vars

\* C16 witness: a non-empty document without root container was read to its
\* end while still Searching; the call is over with no step.
C16_Witness ==
    /\ endKind = "exhausted"
    /\ pc = "ready"
    /\ ~yieldedRoot
    /\ Len(archive) >= 2
    /\ \E i \in 1..Len(archive) : archive[i].tag = "entry"
    /\ steps = <<>>
    /\ exitCause = "none"

\* C17: iteration is pull-driven with no readahead.  While the consumer
\* holds a yielded pair the producer requests no token, consumes and buffers
\* nothing and offers nothing.  A producer turn is one decoder.Token() call:
\* if it decodes a record, that one record is offered in the same turn and
\* control passes to the consumer; if it offers nothing, it has consumed at
\* most the one token it asked for (no record was decoded and kept back).
C17_PullDrivenNoReadahead ==
    [][/\ pc = "yielding" =>
             /\ tokenCalls' = tokenCalls
             /\ pos' = pos
             /\ bufEnd' = bufEnd
             /\ decErr' = decErr
             /\ steps' = steps
       /\ steps' # steps =>
             /\ pc = "scanning"
             /\ pc' = "yielding"
             /\ Len(steps') = Len(steps) + 1
             /\ tokenCalls' = tokenCalls + 1
       /\ (pc = "scanning" /\ steps' = steps) =>
             /\ tokenCalls' \in {tokenCalls, tokenCalls + 1}
             /\ pos' \in {pos, pos + 1}]_vars

\* C17 witness: the consumer holds the first record while a further record
\* element of the root is still unread by the decoder.
C17_Witness ==
    /\ pc = "yielding"
    /\ Len(steps) = 1
    /\ steps[1].err = "none"
    /\ \E j \in pos..Len(archive) : IsDirectRecord(archive, j)

\* Calls of the iteration function that have returned normally.
Returned == IF pc = "ready" THEN iter ELSE iter - 1

\* C18: for a successfully constructed sequence the file and the gzip
\* reader are open from construction on, before any call of the iteration
\* function, and only the deferred closes of that function release them:
\* the closes executed are exactly one teardown (gzip reader, then file) per
\* call that returned normally, none if the sequence was never iterated or
\* the process ended inside the first call.
C18_TeardownsMatchReturns ==
    (pc # "init" /\ exitCause \notin {"open", "gzip"}) =>
        /\ Len(closeLog) = 2 * Returned
        /\ \A i \in 1..Returned :
              closeLog[2 * i - 1] = "gz" /\ closeLog[2 * i] = "file"
        /\ Returned = 0 => (fileOpen /\ gzOpen)
        /\ Returned > 0 => (~fileOpen /\ ~gzOpen)

\* C18 witness: the same sequence value was iterated twice to a normal
\* return and the teardown ran twice.
C18_Witness == pc = "ready" /\ iter = 2 /\ Len(closeLog) = 4

====
